---- MODULE Spec2Model ----
(***************************************************************************)
(* Model of the "guess the number" console game.                           *)
(*                                                                         *)
(*   src/src/lib.rs   the library: Guess, GuessError, GuessCount,          *)
(*                    parse_input, handle_guess (covered by unit tests)    *)
(*   src/src/main.rs  the binary: its own copies of the same definitions   *)
(*                    (prefixed bin_ here), get_guess and the main loop    *)
(*                                                                         *)
(* Text is a sequence of one-character strings, so that trimming and       *)
(* integer parsing are computed character by character.                    *)
(***************************************************************************)
EXTENDS Integers, Sequences, FiniteSets, TLC

VARIABLES
    pc,             \* position of main: Start, AwaitingInput, Reading,
                    \* Matching, Evaluating, Done, Aborted (Unit: no session)
    secret_number,  \* main's `secret_number` (a Guess), NoValue before it is made
    guess_count,    \* main's `guess_count` (a GuessCount), NoValue before it is made
    guess,          \* the Result returned by get_guess in this iteration
    stdin,          \* the input stream: a terminal, or a pipe with fixed content
    stdout,         \* everything printed so far, one entry per println!
    nread,          \* number of read_line calls that returned Ok
    naccepted,      \* number of lines read that parse_input accepted
    ncompare,       \* number of handle_guess calls made by main
    call,           \* unit harness: the library call made
    ret             \* unit harness: what the call returned

vars == <<pc, secret_number, guess_count, guess, stdin, stdout, nread, naccepted,
          ncompare, call, ret>>

(***************************************************************************)
(* Bounds of the model.                                                    *)
(***************************************************************************)
MaxLen == 3         \* unit harness: every text of at most this many characters
MaxValue == 102     \* unit harness: every u32 in 0..MaxValue
MaxReads == 3       \* terminal session: lines typed
MaxEofReads == 2    \* piped session: reads made after the pipe is exhausted

\* u32::MAX = 4294967295 = U32_MAX_DIV_10 * 10 + U32_MAX_MOD_10. TLC's
\* integers are narrower than u32, so the overflow checks of the parser are
\* written on the quotient and the remainder, and the harness feeds it no text
\* denoting a value from 2^31 to u32::MAX.
U32_MAX_DIV_10 == 429496729
U32_MAX_MOD_10 == 5

\* A u32 whose arithmetic reaches u32::MAX (the attempt counter) is kept as
\* two 16-bit halves <<high, low>>, which TLC's integers hold.
HALF == 65536

u32(n) == <<n \div HALF, n % HALF>>

\* the number a u32 stands for, for the values TLC's integers hold
u32_value(x) == x[1] * HALF + x[2]

U32_MAX == <<HALF - 1, HALF - 1>>

\* x + 1 for x below u32::MAX
u32_succ(x) == IF x[2] < HALF - 1 THEN <<x[1], x[2] + 1>> ELSE <<x[1] + 1, 0>>

\* the panic of an arithmetic overflow in a build with overflow checks
Panic == [tag |-> "Panic", val |-> "attempt to add with overflow"]

NoValue == [tag |-> "None"]
NoCall == [fn |-> "None"]

(***************************************************************************)
(* Result<T, E>, GuessError, ParseIntError                                 *)
(***************************************************************************)
Ok(v) == [tag |-> "Ok", val |-> v]
Err(e) == [tag |-> "Err", val |-> e]
is_ok(r) == r.tag = "Ok"
is_err(r) == r.tag = "Err"
unwrap(r) == r.val

InvalidRange == [kind |-> "InvalidRange"]
ParseError(e) == [kind |-> "ParseError", cause |-> e]
InvalidInput == [kind |-> "InvalidInput"]

\* core::num::IntErrorKind, the payload of ParseIntError
Empty == "Empty"
InvalidDigit == "InvalidDigit"
PosOverflow == "PosOverflow"

(***************************************************************************)
(* Text: str::trim and str::parse::<u32>, as called at lib.rs:259          *)
(***************************************************************************)
Digits == <<"0", "1", "2", "3", "4", "5", "6", "7", "8", "9">>

IsDigit(c) == \E i \in 1..10 : Digits[i] = c

\* char::to_digit(10) of a decimal digit
to_digit(c) == (CHOOSE i \in 1..10 : Digits[i] = c) - 1

\* char::is_whitespace, for the characters of the model's alphabet
is_whitespace(c) == c \in {" ", "\t", "\n", "\r"}

RECURSIVE trim_start(_)
trim_start(s) ==
    IF s # <<>> /\ is_whitespace(Head(s)) THEN trim_start(Tail(s)) ELSE s

RECURSIVE trim_end(_)
trim_end(s) ==
    IF s # <<>> /\ is_whitespace(s[Len(s)])
    THEN trim_end(SubSeq(s, 1, Len(s) - 1))
    ELSE s

\* str::trim: leading and trailing whitespace removed
trim(s) == trim_end(trim_start(s))

\* The digit loop of u32::from_str: each character is checked to be a digit
\* first, then the accumulator is multiplied and added with overflow checks.
RECURSIVE parse_digits(_, _)
parse_digits(s, acc) ==
    IF s = <<>> THEN Ok(acc)
    ELSE IF ~IsDigit(Head(s)) THEN Err(InvalidDigit)
    ELSE IF acc > U32_MAX_DIV_10 THEN Err(PosOverflow)                \* checked_mul
    ELSE IF acc = U32_MAX_DIV_10 /\ to_digit(Head(s)) > U32_MAX_MOD_10
         THEN Err(PosOverflow)                                         \* checked_add
    ELSE parse_digits(Tail(s), acc * 10 + to_digit(Head(s)))

\* str::parse::<u32>: empty text is Empty, a lone sign is InvalidDigit, one
\* leading "+" is accepted, "-" is not a digit of an unsigned type.
parse_u32(s) ==
    IF s = <<>> THEN Err(Empty)
    ELSE IF s = <<"+">> \/ s = <<"-">> THEN Err(InvalidDigit)
    ELSE IF Head(s) = "+" THEN parse_digits(Tail(s), 0)
    ELSE parse_digits(s, 0)

\* u32::to_string: the decimal form, no sign, no leading zeros
RECURSIVE to_string(_)
to_string(n) ==
    IF n < 10 THEN <<Digits[n + 1]>>
    ELSE to_string(n \div 10) \o <<Digits[(n % 10) + 1]>>

\* the decimal form of any integer, with "-" for the negative ones
int_to_string(z) == IF z < 0 THEN <<"-">> \o to_string(0 - z) ELSE to_string(z)

(***************************************************************************)
(* lib.rs: Guess                                                           *)
(***************************************************************************)
Guess(v) == [value |-> v]

\* Guess::new with the upper comparison off by one
Guess_new_UpperExclusive(value) ==
    IF value < 1 \/ value >= 100 THEN Err(InvalidRange) ELSE Ok(Guess(value))

\* Guess::new that forgets the lower bound and clamps the upper one
Guess_new_Clamping(value) ==
    IF value > 100 THEN Ok(Guess(100)) ELSE Ok(Guess(value))

Guess_new(value) ==
    IF value < 1 \/ value > 100 THEN Err(InvalidRange) ELSE Ok(Guess(value))

Guess_value(self) == self.value

\* u32::cmp
Less == "Less"
Greater == "Greater"
Equal == "Equal"

cmp(a, b) == IF a < b THEN Less ELSE IF a > b THEN Greater ELSE Equal

Guess_compare(self, other) == cmp(self.value, other.value)

\* parse_input that constructs the Guess without the range check
parse_input_exec_NoRangeCheck(input) ==
    LET parsed == parse_u32(trim(input)) IN
    IF is_err(parsed)
    THEN [ret |-> Err(ParseError(parsed.val)), called |-> <<>>]
    ELSE [ret |-> Ok(Guess(parsed.val)), called |-> <<>>]

\* parse_input that parses the line without trimming it
parse_input_exec_NoTrim(input) ==
    LET parsed == parse_u32(input) IN
    IF is_err(parsed)
    THEN [ret |-> Err(ParseError(parsed.val)), called |-> <<>>]
    ELSE [ret |-> Guess_new(parsed.val), called |-> <<parsed.val>>]

\* parse_input that maps every error to InvalidInput, dropping the cause
parse_input_exec_DropsCause(input) ==
    LET parsed == parse_u32(trim(input)) IN
    IF is_err(parsed)
    THEN [ret |-> Err(InvalidInput), called |-> <<>>]
    ELSE [ret |-> Guess_new(parsed.val), called |-> <<parsed.val>>]

\* parse_input mapping the range error of Guess::new to a ParseError as well
parse_input_exec_RangeAsParseError(input) ==
    LET parsed == parse_u32(trim(input)) IN
    IF is_err(parsed)
    THEN [ret |-> Err(ParseError(parsed.val)), called |-> <<>>]
    ELSE IF is_err(Guess_new(parsed.val))
    THEN [ret |-> Err(ParseError(PosOverflow)), called |-> <<parsed.val>>]
    ELSE [ret |-> Guess_new(parsed.val), called |-> <<parsed.val>>]

\* <Guess as Parsable>::parse_input, with the arguments of the Guess::new
\* calls it makes: `?` returns the mapped error before Guess::new is reached.
parse_input_exec(input) ==
    LET parsed == parse_u32(trim(input)) IN
    IF is_err(parsed)
    THEN [ret |-> Err(ParseError(parsed.val)), called |-> <<>>]
    ELSE [ret |-> Guess_new(parsed.val), called |-> <<parsed.val>>]

parse_input(input) == parse_input_exec(input).ret

(***************************************************************************)
(* lib.rs: GuessCount                                                      *)
(***************************************************************************)
GuessCount(n) == [count |-> u32(n)]

GuessCount_new == GuessCount(0)

GuessCount_value(self) == u32_value(self.count)

\* `self.count += 1` on a u32: the outcomes of the builds. At u32::MAX a
\* build with overflow checks (debug) panics and one without (release) wraps
\* to 0.
GuessCount_increment(self) ==
    IF self.count = U32_MAX
    THEN {Panic, [count |-> u32(0)]}
    ELSE {[count |-> u32_succ(self.count)]}

(***************************************************************************)
(* lib.rs: GuessResult, handle_guess                                       *)
(***************************************************************************)
TooSmall == [tag |-> "TooSmall"]
TooBig == [tag |-> "TooBig"]
Correct == [tag |-> "Correct"]

\* handle_guess comparing the secret with the guess
handle_guess_Swapped(g, secret) ==
    LET o == Guess_compare(secret, g) IN
    IF o = Less THEN TooSmall ELSE IF o = Greater THEN TooBig ELSE Correct

handle_guess(g, secret) ==
    LET o == Guess_compare(g, secret) IN
    IF o = Less THEN TooSmall ELSE IF o = Greater THEN TooBig ELSE Correct

(***************************************************************************)
(* Unit harness: one library function applied once to a bounded input      *)
(***************************************************************************)
Alphabet == {"0", "1", "5", "a", " ", "\n", "-", "+"}

Texts == UNION {[1..k -> Alphabet] : k \in 0..MaxLen}

\* whitespace put around a number by a terminal or by the user
Pads == {<<>>, <<" ">>, <<"\n">>, <<"\r", "\n">>, <<"\t", " ">>}

\* values passed as u32
U32Samples == (0..MaxValue) \cup {150, 1000, 2147483647}

\* integers written out in full, the negative ones included
IntSamples == U32Samples \cup {0 - 1, 0 - 5, 0 - 100}

\* 2^32 and 99999999999: integers too large for u32, written out in full
TooLargeTexts == {<<"4", "2", "9", "4", "9", "6", "7", "2", "9", "6">>,
                  <<"9", "9", "9", "9", "9", "9", "9", "9", "9", "9", "9">>}

Padded(text) == {pre \o text \o post : pre \in Pads, post \in Pads}

NumberLines == UNION {Padded(int_to_string(z)) : z \in IntSamples}
                 \cup UNION {Padded(t) : t \in TooLargeTexts}

WordLines == {<<"a", "b", "c">>, <<"a", "b", "c", "\n">>,
              <<"n", "o", "t", "_", "a", "_", "n", "u", "m", "b", "e", "r">>,
              <<"4", " ", "2", "\n">>, <<"4", "2", "a", "\n">>, <<"1", ".", "5", "\n">>,
              <<"9", "9", "9", "9", "9", "9", "9", "9", "9", "9", "9", "a">>}

UnitInputs == Texts \cup NumberLines \cup WordLines

UnitInit ==
    /\ pc = "Unit"
    /\ secret_number = NoValue
    /\ guess_count = NoValue
    /\ guess = NoValue
    /\ stdin = NoValue
    /\ stdout = <<>>
    /\ nread = 0
    /\ naccepted = 0
    /\ ncompare = 0
    /\ call = NoCall
    /\ ret = NoValue

session_vars == <<pc, secret_number, guess_count, guess, stdin, stdout, nread, naccepted,
                  ncompare>>

Call_Guess_new ==
    /\ call = NoCall
    /\ \E v \in U32Samples :
        /\ call' = [fn |-> "Guess::new", arg |-> v]
        /\ ret' = Guess_new(v)
        /\ UNCHANGED session_vars

Call_parse_input ==
    /\ call = NoCall
    /\ \E input \in UnitInputs :
        /\ call' = [fn |-> "parse_input", arg |-> input,
                    called |-> parse_input_exec(input).called]
        /\ ret' = parse_input(input)
        /\ UNCHANGED session_vars

Call_handle_guess ==
    /\ call = NoCall
    /\ \E g \in 1..100, s \in 1..100 :
        /\ call' = [fn |-> "handle_guess", args |-> <<g, s>>]
        /\ ret' = handle_guess(unwrap(Guess_new(g)), unwrap(Guess_new(s)))
        /\ UNCHANGED session_vars

\* counters to increment: the small ones, and the ones at the carry of the
\* low half and at the end of u32
CountSamples ==
    {u32(n) : n \in 0..MaxValue} \cup {<<0, HALF - 1>>, <<HALF - 1, HALF - 2>>, U32_MAX}

Call_GuessCount_new ==
    /\ call = NoCall
    /\ call' = [fn |-> "GuessCount::new"]
    /\ ret' = GuessCount_new
    /\ UNCHANGED session_vars

Call_GuessCount_increment ==
    /\ call = NoCall
    /\ \E count \in CountSamples :
        /\ call' = [fn |-> "increment", self |-> count]
        /\ ret' \in GuessCount_increment([count |-> count])
        /\ UNCHANGED session_vars

UnitNext ==
    \/ Call_Guess_new
    \/ Call_parse_input
    \/ Call_handle_guess
    \/ Call_GuessCount_new
    \/ Call_GuessCount_increment

UnitSpec == UnitInit /\ [][UnitNext]_vars

(***************************************************************************)
(* main.rs: the binary's own copies of the library definitions             *)
(***************************************************************************)
\* the binary's Guess::new with the lower bound lost
bin_Guess_new_ZeroAllowed(value) ==
    IF value > 100 THEN Err(InvalidRange) ELSE Ok(Guess(value))

bin_Guess_new(value) ==
    IF value < 1 \/ value > 100 THEN Err(InvalidRange) ELSE Ok(Guess(value))

bin_Guess_value(self) == self.value

bin_Guess_compare(self, other) == cmp(self.value, other.value)

\* parse_input reporting an empty line with the InvalidInput variant
bin_parse_input_EmptyAsInvalidInput(input) ==
    LET parsed == parse_u32(trim(input)) IN
    IF trim(input) = <<>> THEN Err(InvalidInput)
    ELSE IF is_err(parsed) THEN Err(ParseError(parsed.val)) ELSE bin_Guess_new(parsed.val)

bin_parse_input(input) ==
    LET parsed == parse_u32(trim(input)) IN
    IF is_err(parsed) THEN Err(ParseError(parsed.val)) ELSE bin_Guess_new(parsed.val)

bin_GuessCount_new == GuessCount(0)

bin_GuessCount_value(self) == u32_value(self.count)

\* increment that counts every guess twice
bin_GuessCount_increment_ByTwo(self) == {[count |-> u32_succ(u32_succ(self.count))]}

\* `self.count += 1` on a u32: the outcomes of the builds, as in the library
bin_GuessCount_increment(self) ==
    IF self.count = U32_MAX
    THEN {Panic, [count |-> u32(0)]}
    ELSE {[count |-> u32_succ(self.count)]}

\* handle_guess comparing the secret with the guess
bin_handle_guess_Swapped(g, secret) ==
    LET o == bin_Guess_compare(secret, g) IN
    IF o = Less THEN TooSmall ELSE IF o = Greater THEN TooBig ELSE Correct

bin_handle_guess(g, secret) ==
    LET o == bin_Guess_compare(g, secret) IN
    IF o = Less THEN TooSmall ELSE IF o = Greater THEN TooBig ELSE Correct

(***************************************************************************)
(* main.rs: what is printed                                                *)
(***************************************************************************)
\* one println!: the format string and the values put into it
Printed(text, args) == [text |-> text, args |-> args]

MsgTitle == Printed("Guess the number", <<>>)
MsgPrompt == Printed("Please input your guess:", <<>>)
MsgTooSmall == Printed("Too small", <<>>)
MsgTooBig == Printed("Too big", <<>>)
MsgWin(n) == Printed("You win, in {} guesses!", <<n>>)
MsgInvalidRange == Printed("Error: The number must be between 1 and 100.", <<>>)
MsgParseError == Printed("Error: Please enter a valid number.", <<>>)
MsgInvalidInput == Printed("Error: Invalid input, please try again.", <<>>)

\* handle_error with the messages of InvalidRange and ParseError exchanged
handle_error_Exchanged(err) ==
    IF err.kind = "InvalidRange" THEN MsgParseError
    ELSE IF err.kind = "ParseError" THEN MsgInvalidRange
    ELSE MsgInvalidInput

\* <GuessError as ErrorHandler>::handle_error: the line it prints
handle_error(err) ==
    IF err.kind = "InvalidRange" THEN MsgInvalidRange
    ELSE IF err.kind = "ParseError" THEN MsgParseError
    ELSE MsgInvalidInput

\* a generator whose range starts one below `start`
get_secret_number_FromBelow(start, end) == (start - 1)..end

\* get_secret_number(start, end): any value of start..=end
get_secret_number(start, end) == start..end

(***************************************************************************)
(* The input stream                                                        *)
(***************************************************************************)
Terminal == [tty |-> TRUE, data |-> <<>>]
Pipe(lines) == [tty |-> FALSE, data |-> lines]

\* Lines a user types at the terminal; "\n" alone is the Enter key on an empty
\* line, and the empty text is ctrl-D (end of
\* input), for which read_line returns Ok(0) and leaves the buffer empty.
TtyLines == {<<"3", "0", "\n">>, <<"1", "5", "0", "\n">>, <<"a", "b", "c", "\n">>,
             <<"7", "0", "\n">>, <<"5", "0", "\n">>, <<" ", "1", " ", "\n">>,
             <<"1", "0", "0", "\r", "\n">>, <<"0", "\n">>, <<"-", "5", "\n">>,
             <<"\n">>, <<>>}

\* The lines of the end-to-end scenario, and the scripts piped in: the
\* scenario with any of its lines left out.
Scenario == <<<<"3", "0", "\n">>, <<"1", "5", "0", "\n">>, <<"a", "b", "c", "\n">>,
              <<"7", "0", "\n">>, <<"5", "0", "\n">>>>

RECURSIVE Keep(_, _)
Keep(lines, mask) ==
    IF lines = <<>> THEN <<>>
    ELSE (IF Head(mask) THEN <<Head(lines)>> ELSE <<>>) \o Keep(Tail(lines), Tail(mask))

Scripts == {Keep(Scenario, mask) : mask \in [1..Len(Scenario) -> BOOLEAN]}

\* read_line on the stream after n lines were read: the lines it may return
NextLines(in, n) ==
    IF in.tty THEN TtyLines
    ELSE IF n < Len(in.data) THEN {in.data[n + 1]}
    ELSE {<<>>}

\* reads the model lets a session make
ReadCap(in) == IF in.tty THEN MaxReads ELSE Len(in.data) + MaxEofReads

(***************************************************************************)
(* main.rs: main and get_guess, step by step                               *)
(***************************************************************************)
SessionInit(in) ==
    /\ pc = "Start"
    /\ secret_number = NoValue
    /\ guess_count = NoValue
    /\ guess = NoValue
    /\ stdin = in
    /\ stdout = <<>>
    /\ nread = 0
    /\ naccepted = 0
    /\ ncompare = 0
    /\ call = NoCall
    /\ ret = NoValue

Init == SessionInit(Terminal)

PipedInit == \E script \in Scripts : SessionInit(Pipe(script))

unit_vars == <<call, ret>>

\* main, lines 471-478: the title, the secret, the counter. `expect` panics
\* if Guess::new rejects the number drawn.
Main_Start ==
    /\ pc = "Start"
    /\ \E n \in get_secret_number(1, 100) :
        LET made == bin_Guess_new(n) IN
        /\ stdout' = Append(stdout, MsgTitle)
        /\ IF is_ok(made)
           THEN /\ secret_number' = unwrap(made)
                /\ guess_count' = bin_GuessCount_new
                /\ pc' = "AwaitingInput"
           ELSE /\ pc' = "Aborted"
                /\ UNCHANGED <<secret_number, guess_count>>
    /\ UNCHANGED <<guess, stdin, nread, naccepted, ncompare, unit_vars>>

\* get_guess, line 387: the prompt
GetGuess_Prompt ==
    /\ pc = "AwaitingInput"
    /\ nread < ReadCap(stdin)
    /\ stdout' = Append(stdout, MsgPrompt)
    /\ pc' = "Reading"
    /\ UNCHANGED <<secret_number, guess_count, guess, stdin, nread, naccepted, ncompare,
                   unit_vars>>

\* get_guess taking the end of input (read_line returning Ok(0)) for a failed
\* read
GetGuess_Read_EofFails ==
    /\ pc = "Reading"
    /\ \E line \in NextLines(stdin, nread) :
        /\ guess' = IF line = <<>> THEN guess ELSE bin_parse_input(line)
        /\ naccepted' = IF is_ok(bin_parse_input(line)) THEN naccepted + 1 ELSE naccepted
        /\ pc' = IF line = <<>> THEN "Aborted" ELSE "Matching"
    /\ nread' = nread + 1
    /\ UNCHANGED <<secret_number, guess_count, stdin, stdout, ncompare, unit_vars>>

\* get_guess, lines 389-395: read_line returns Ok and the line is parsed
GetGuess_Read ==
    /\ pc = "Reading"
    /\ \E line \in NextLines(stdin, nread) :
        /\ guess' = bin_parse_input(line)
        /\ naccepted' = IF is_ok(bin_parse_input(line)) THEN naccepted + 1 ELSE naccepted
    /\ nread' = nread + 1
    /\ pc' = "Matching"
    /\ UNCHANGED <<secret_number, guess_count, stdin, stdout, ncompare, unit_vars>>

\* a failed read answered by a new prompt instead of a panic
GetGuess_ReadFails_Retrying ==
    /\ pc = "Reading"
    /\ pc' = "AwaitingInput"
    /\ UNCHANGED <<secret_number, guess_count, guess, stdin, stdout, nread, naccepted,
                   ncompare, unit_vars>>

\* get_guess, lines 391-393: read_line returns Err and `expect` panics
GetGuess_ReadFails ==
    /\ pc = "Reading"
    /\ pc' = "Aborted"
    /\ UNCHANGED <<secret_number, guess_count, guess, stdin, stdout, nread, naccepted,
                   ncompare, unit_vars>>

\* the Err arm with the counter incremented before `continue`
Main_HandleError_Counting ==
    /\ pc = "Matching"
    /\ is_err(guess)
    /\ stdout' = Append(stdout, handle_error(unwrap(guess)))
    /\ \E counted \in bin_GuessCount_increment(guess_count) \ {Panic} :
        guess_count' = counted
    /\ guess' = NoValue
    /\ pc' = "AwaitingInput"
    /\ UNCHANGED <<secret_number, stdin, nread, naccepted, ncompare, unit_vars>>

\* the Err arm treating the input error as fatal
Main_HandleError_Aborting ==
    /\ pc = "Matching"
    /\ is_err(guess)
    /\ stdout' = Append(stdout, handle_error(unwrap(guess)))
    /\ guess' = NoValue
    /\ pc' = "Aborted"
    /\ UNCHANGED <<secret_number, guess_count, stdin, nread, naccepted, ncompare,
                   unit_vars>>

\* the Err arm reading the next line without a new prompt
Main_HandleError_NoPrompt ==
    /\ pc = "Matching"
    /\ is_err(guess)
    /\ stdout' = Append(stdout, handle_error(unwrap(guess)))
    /\ guess' = NoValue
    /\ pc' = "Reading"
    /\ UNCHANGED <<secret_number, guess_count, stdin, nread, naccepted, ncompare,
                   unit_vars>>

\* main, lines 485-489: the Err arm prints the error and continues the loop
Main_HandleError ==
    /\ pc = "Matching"
    /\ is_err(guess)
    /\ stdout' = Append(stdout, handle_error(unwrap(guess)))
    /\ guess' = NoValue
    /\ pc' = "AwaitingInput"
    /\ UNCHANGED <<secret_number, guess_count, stdin, nread, naccepted, ncompare,
                   unit_vars>>

\* main, lines 484 and 493: the Ok arm, then the counter is incremented; a
\* panic of the increment ends the process
Main_Increment ==
    /\ pc = "Matching"
    /\ is_ok(guess)
    /\ \E counted \in bin_GuessCount_increment(guess_count) :
        IF counted = Panic
        THEN pc' = "Aborted" /\ guess_count' = guess_count
        ELSE pc' = "Evaluating" /\ guess_count' = counted
    /\ UNCHANGED <<secret_number, guess, stdin, stdout, nread, naccepted, ncompare,
                   unit_vars>>

\* the match in a loop that draws the secret anew on every turn
Main_HandleGuess_Redrawing ==
    /\ pc = "Evaluating"
    /\ LET result == bin_handle_guess(unwrap(guess), secret_number) IN
        /\ stdout' = Append(stdout,
               IF result = TooSmall THEN MsgTooSmall
               ELSE IF result = TooBig THEN MsgTooBig
               ELSE MsgWin(bin_GuessCount_value(guess_count)))
        /\ pc' = IF result = Correct THEN "Done" ELSE "AwaitingInput"
    /\ \E n \in get_secret_number(1, 100) : secret_number' = unwrap(bin_Guess_new(n))
    /\ ncompare' = ncompare + 1
    /\ guess' = NoValue
    /\ UNCHANGED <<guess_count, stdin, nread, naccepted, unit_vars>>

\* the match with `break` in the TooBig arm as well
Main_HandleGuess_BreakOnTooBig ==
    /\ pc = "Evaluating"
    /\ LET result == bin_handle_guess(unwrap(guess), secret_number) IN
        /\ stdout' = Append(stdout,
               IF result = TooSmall THEN MsgTooSmall
               ELSE IF result = TooBig THEN MsgTooBig
               ELSE MsgWin(bin_GuessCount_value(guess_count)))
        /\ pc' = IF result = TooSmall THEN "AwaitingInput" ELSE "Done"
    /\ ncompare' = ncompare + 1
    /\ guess' = NoValue
    /\ UNCHANGED <<secret_number, guess_count, stdin, nread, naccepted, unit_vars>>

\* the match printing the counter as it stood before this guess was counted
Main_HandleGuess_StaleCount ==
    /\ pc = "Evaluating"
    /\ LET result == bin_handle_guess(unwrap(guess), secret_number) IN
        /\ stdout' = Append(stdout,
               IF result = TooSmall THEN MsgTooSmall
               ELSE IF result = TooBig THEN MsgTooBig
               ELSE MsgWin(bin_GuessCount_value(guess_count) - 1))
        /\ pc' = IF result = Correct THEN "Done" ELSE "AwaitingInput"
    /\ ncompare' = ncompare + 1
    /\ guess' = NoValue
    /\ UNCHANGED <<secret_number, guess_count, stdin, nread, naccepted, unit_vars>>

\* the match without `break` in the Correct arm
Main_HandleGuess_NoBreak ==
    /\ pc = "Evaluating"
    /\ LET result == bin_handle_guess(unwrap(guess), secret_number) IN
        /\ stdout' = Append(stdout,
               IF result = TooSmall THEN MsgTooSmall
               ELSE IF result = TooBig THEN MsgTooBig
               ELSE MsgWin(bin_GuessCount_value(guess_count)))
        /\ pc' = "AwaitingInput"
    /\ ncompare' = ncompare + 1
    /\ guess' = NoValue
    /\ UNCHANGED <<secret_number, guess_count, stdin, nread, naccepted, unit_vars>>

\* main, lines 496-503: the guess is compared with the secret, the outcome
\* printed, and the loop left on Correct
Main_HandleGuess ==
    /\ pc = "Evaluating"
    /\ LET result == bin_handle_guess(unwrap(guess), secret_number) IN
        /\ stdout' = Append(stdout,
               IF result = TooSmall THEN MsgTooSmall
               ELSE IF result = TooBig THEN MsgTooBig
               ELSE MsgWin(bin_GuessCount_value(guess_count)))
        /\ pc' = IF result = Correct THEN "Done" ELSE "AwaitingInput"
    /\ ncompare' = ncompare + 1
    /\ guess' = NoValue
    /\ UNCHANGED <<secret_number, guess_count, stdin, nread, naccepted, unit_vars>>

Next ==
    \/ Main_Start
    \/ GetGuess_Prompt
    \/ GetGuess_Read
    \/ GetGuess_ReadFails
    \/ Main_HandleError
    \/ Main_Increment
    \/ Main_HandleGuess

\* a session at the terminal
Spec == Init /\ [][Next]_vars

\* a session fed from a pipe
PipedSpec == PipedInit /\ [][Next]_vars

\* The loop of main with every read succeeding, in a session that has
\* already counted 4294967295 accepted guesses, none of them the secret: the
\* counter stands at u32::MAX and the loop is about to prompt. stdout, nread,
\* naccepted and ncompare record what happens from this point on, and stdin
\* holds the lines still to come.
LongSessionInit ==
    \E script \in Scripts, n \in get_secret_number(1, 100) :
        /\ pc = "AwaitingInput"
        /\ secret_number = unwrap(bin_Guess_new(n))
        /\ guess_count = [count |-> U32_MAX]
        /\ guess = NoValue
        /\ stdin = Pipe(script)
        /\ stdout = <<>>
        /\ nread = 0
        /\ naccepted = 0
        /\ ncompare = 0
        /\ call = NoCall
        /\ ret = NoValue

LoopNext ==
    \/ GetGuess_Prompt
    \/ GetGuess_Read
    \/ Main_HandleError
    \/ Main_Increment
    \/ Main_HandleGuess

\* the process keeps running and the user keeps answering: a step of the
\* loop that can be taken is taken
LongSessionSpec == LongSessionInit /\ [][LoopNext]_vars /\ WF_vars(LoopNext)

(***************************************************************************)
(* Claims about the library functions, checked under UnitSpec              *)
(***************************************************************************)

\* C1: for every integer v with 1 <= v <= 100, both bounds included,
\* Guess::new(v) succeeds and the value() of the returned guess equals v.
C1_NewAcceptsRange ==
    (call.fn = "Guess::new" /\ call.arg >= 1 /\ call.arg <= 100)
        => (is_ok(ret) /\ Guess_value(unwrap(ret)) = call.arg)

\* Guess::new was called with the upper bound 100 and returned a guess of 100
C1_Witness ==
    call.fn = "Guess::new" /\ call.arg = 100 /\ ret = Ok(Guess(100))

\* C2: for every u32 v outside [1,100] (v = 0 or v >= 101), Guess::new(v)
\* fails with InvalidRange: no Guess is produced, nothing is clamped.
C2_NewRejectsOutside ==
    (call.fn = "Guess::new" /\ (call.arg = 0 \/ call.arg >= 101))
        => ret = Err(InvalidRange)

\* Guess::new was called with 101, the first value above the range, and failed
C2_Witness ==
    call.fn = "Guess::new" /\ call.arg = 101 /\ ret = Err(InvalidRange)

\* C3: a line that is the decimal form of an integer n in [1,100] with
\* whitespace (the trailing newline included) around it parses to Ok with a
\* guess whose value() is n.
C3_ParseAcceptsRange ==
    call.fn = "parse_input" =>
        \A n \in 1..100 :
            call.arg \in Padded(to_string(n))
                => (is_ok(ret) /\ Guess_value(unwrap(ret)) = n)

\* " 42\n" was parsed, to 42
C3_Witness ==
    /\ call.fn = "parse_input"
    /\ call.arg = <<" ", "4", "2", "\n">>
    /\ ret = Ok(Guess(42))

IsIntegerText(s) ==
    /\ s # <<>>
    /\ LET body == IF Head(s) \in {"+", "-"} THEN Tail(s) ELSE s IN
       /\ body # <<>>
       /\ \A i \in 1..Len(body) : IsDigit(body[i])

\* C5: a line whose trimmed text is not an integer fails with ParseError
\* carrying the error of the integer parse, and Guess::new is not reached.
C5_ParseRejectsNonInteger ==
    (call.fn = "parse_input" /\ ~IsIntegerText(trim(call.arg))) =>
        /\ is_err(ret)
        /\ unwrap(ret).kind = "ParseError"
        /\ unwrap(ret).cause = unwrap(parse_u32(trim(call.arg)))
        /\ unwrap(ret).cause \in {Empty, InvalidDigit, PosOverflow}
        /\ call.called = <<>>

\* "abc\n" was parsed and rejected with the InvalidDigit of the integer parse
C5_Witness ==
    /\ call.fn = "parse_input"
    /\ call.arg = <<"a", "b", "c", "\n">>
    /\ call.called = <<>>
    /\ ret = Err(ParseError(InvalidDigit))

\* C6: for all guesses g and secrets s in [1,100], handle_guess(g, &s) is
\* TooSmall exactly when g < s, TooBig exactly when g > s and Correct
\* exactly when g = s.
C6_HandleGuessThreeWay ==
    call.fn = "handle_guess" =>
        LET g == call.args[1]
            s == call.args[2] IN
        /\ ret \in {TooSmall, TooBig, Correct}
        /\ ret = TooSmall <=> g < s
        /\ ret = TooBig <=> g > s
        /\ ret = Correct <=> g = s

\* handle_guess(30, &50) was called and returned TooSmall
C6_Witness ==
    call.fn = "handle_guess" /\ call.args = <<30, 50>> /\ ret = TooSmall

(***************************************************************************)
(* Claims about the session, checked under Spec and PipedSpec              *)
(***************************************************************************)

\* C7: in every state of the session the attempt counter equals the number
\* of accepted guesses consumed so far: 0 after GuessCount::new, and one more
\* for each accepted guess, whatever its outcome. Between the read of an
\* accepted line and the increment that follows it, that line is not yet
\* counted.
C7_CounterCountsAccepted ==
    /\ pc = "Start" => guess_count = NoValue
    /\ pc # "Start" =>
        /\ bin_GuessCount_value(guess_count)
             = naccepted - (IF pc = "Matching" /\ is_ok(guess) THEN 1 ELSE 0)
        /\ nread = 0 => bin_GuessCount_value(guess_count) = 0

\* the session is won at the third line, one line having been rejected: the
\* counter stands at 2 after a TooSmall or TooBig outcome and a Correct one
C7_Witness ==
    /\ pc = "Done"
    /\ nread = 3
    /\ naccepted = 2
    /\ bin_GuessCount_value(guess_count) = 2

\* C8: when a line is rejected (ParseError or InvalidRange) the session
\* prints the error's message and awaits input again, the counter and the
\* secret unchanged and no comparison with the secret made.
C8_RejectedLineChangesNothing ==
    [][(pc = "Matching" /\ is_err(guess)) =>
         /\ pc' = "AwaitingInput"
         /\ guess_count' = guess_count
         /\ secret_number' = secret_number
         /\ ncompare' = ncompare
         /\ unwrap(guess).kind \in {"InvalidRange", "ParseError"}
         /\ stdout' = Append(stdout, IF unwrap(guess).kind = "InvalidRange"
                                     THEN MsgInvalidRange
                                     ELSE MsgParseError)]_vars

\* the first line was rejected as out of range and the session awaits input
\* again, nothing counted and nothing compared
C8_Witness ==
    /\ pc = "AwaitingInput"
    /\ nread = 1
    /\ stdout[Len(stdout)] = MsgInvalidRange
    /\ bin_GuessCount_value(guess_count) = 0
    /\ ncompare = 0

\* what the session printed in response to the lines: all but title and prompts
Responses(out) == SelectSeq(out, LAMBDA m : m \notin {MsgTitle, MsgPrompt})

IsPrefix(a, b) == Len(a) <= Len(b) /\ a = SubSeq(b, 1, Len(a))

ScenarioOutput == <<MsgTooSmall, MsgInvalidRange, MsgParseError, MsgTooBig, MsgWin(3)>>

InScenario == stdin = Pipe(Scenario) /\ secret_number = Guess(50)

\* C9: with secret 50 and the lines "30", "150", "abc", "70", "50", the
\* session prints, in order, Too small, the out-of-range error, the
\* invalid-number error, Too big and the victory message, and then has
\* stopped with the counter at 3.
C9_Scenario ==
    InScenario =>
        /\ IsPrefix(Responses(stdout), ScenarioOutput)
        /\ pc \in {"AwaitingInput", "Done"} => Len(Responses(stdout)) = nread
        /\ pc = "AwaitingInput" => nread < Len(Scenario)
        /\ pc = "Done" =>
            /\ Responses(stdout) = ScenarioOutput
            /\ nread = Len(Scenario)
            /\ bin_GuessCount_value(guess_count) = 3

\* the scenario has run to its end
C9_Witness ==
    /\ InScenario
    /\ pc = "Done"
    /\ Responses(stdout) = ScenarioOutput
    /\ bin_GuessCount_value(guess_count) = 3

\* C10: the session reaches Done exactly when the guess just accepted equals
\* the secret: every step into Done is the evaluation of such a guess, and
\* the evaluation of any other guess, like the handling of a rejected line,
\* leads back to AwaitingInput.
C10_DoneIffCorrect ==
    [][/\ (pc # "Done" /\ pc' = "Done") =>
            /\ pc = "Evaluating"
            /\ is_ok(guess)
            /\ bin_Guess_value(unwrap(guess)) = bin_Guess_value(secret_number)
       /\ pc = "Evaluating" =>
            IF bin_Guess_value(unwrap(guess)) = bin_Guess_value(secret_number)
            THEN pc' = "Done"
            ELSE pc' = "AwaitingInput"
       /\ (pc = "Matching" /\ is_err(guess)) => pc' = "AwaitingInput"
       /\ pc = "Done" => pc' = "Done"]_vars

\* the session stopped at its third line, after a rejected line and a guess
\* that was too small or too big
C10_Witness ==
    /\ pc = "Done"
    /\ nread = 3
    /\ naccepted = 2
    /\ \E i \in 1..Len(stdout) : stdout[i] \in {MsgInvalidRange, MsgParseError}
    /\ \E i \in 1..Len(stdout) : stdout[i] \in {MsgTooSmall, MsgTooBig}

\* the victory message, whatever count it embeds
IsWin(m) == m.text = MsgWin(0).text

\* C11: the count in the victory message is the number of accepted guesses
\* of the session, the winning one included (so at least 1) and the rejected
\* lines left out; the counter already includes the current guess when its
\* outcome is about to be reported.
C11_VictoryCount ==
    /\ pc = "Done" =>
        /\ stdout[Len(stdout)] = MsgWin(naccepted)
        /\ naccepted >= 1
        /\ naccepted <= nread
    /\ pc = "Evaluating" =>
        /\ bin_GuessCount_value(guess_count) = naccepted
        /\ Len(Responses(stdout)) = nread - 1
    /\ \A i \in 1..Len(stdout) : IsWin(stdout[i]) => (pc = "Done" /\ i = Len(stdout))

\* the session was won with the second accepted guess, a third line having
\* been rejected: the message says 2
C11_Witness ==
    /\ pc = "Done"
    /\ nread = 3
    /\ stdout[Len(stdout)] = MsgWin(2)
    /\ \E i \in 1..Len(stdout) : stdout[i] = MsgParseError

\* lines read so far that were rejected
nrejected == nread - naccepted

\* C12: input errors are recoverable. A rejected line never aborts the
\* session, which awaits input again after it, and however many lines were
\* rejected before, a guess equal to the secret ends the session with the
\* victory message.
C12_ErrorsRecoverable ==
    [][/\ (pc = "Matching" /\ is_err(guess)) =>
            /\ pc' = "AwaitingInput"
            /\ nrejected' = nrejected
            /\ nrejected >= 1
       /\ (pc = "Evaluating" /\ unwrap(guess) = secret_number) =>
            /\ pc' = "Done"
            /\ IsWin(stdout'[Len(stdout')])]_vars

\* two lines were rejected and the third, equal to the secret, won
C12_Witness ==
    /\ pc = "Done"
    /\ nread = 3
    /\ nrejected = 2
    /\ IsWin(stdout[Len(stdout)])

\* C13: a failed read is fatal. The step a read takes when it does not
\* return a line ends in Aborted, a state other than Done, with nothing
\* printed, nothing counted and no line consumed; nothing happens after it:
\* no retry, no prompt, no victory message.
C13_ReadFailureAborts ==
    [][/\ (pc = "Reading" /\ nread' = nread) =>
            /\ pc' = "Aborted"
            /\ stdout' = stdout
            /\ stdout[Len(stdout)] = MsgPrompt
            /\ \A i \in 1..Len(stdout) : ~IsWin(stdout[i])
            /\ guess_count' = guess_count
            /\ naccepted' = naccepted
            /\ ncompare' = ncompare
       /\ pc = "Aborted" => FALSE]_vars

\* the second read of a session failed, after an accepted guess
C13_Witness ==
    /\ pc = "Aborted"
    /\ nread = 1
    /\ naccepted = 1
    /\ bin_GuessCount_value(guess_count) = 1
    /\ stdout[Len(stdout)] = MsgPrompt

\* C14: the secret is made once, by the first step of main, from a number in
\* [1,100], so that Guess::new accepts it and `expect` lets the session go
\* on; no later step changes it.
C14_SecretFixed ==
    [][/\ pc = "Start" =>
            /\ pc' = "AwaitingInput"
            /\ secret_number = NoValue
            /\ \E n \in 1..100 : secret_number' = Guess(n)
       /\ pc # "Start" => secret_number' = secret_number]_vars

\* a session with secret 100 ran to its end over a rejected line, a guess
\* that was too small and the winning guess
C14_Witness ==
    /\ pc = "Done"
    /\ secret_number = Guess(100)
    /\ nread = 3
    /\ nrejected = 1
    /\ \E i \in 1..Len(stdout) : stdout[i] = MsgTooSmall

\* the i-th line a piped session reads: past the end of the pipe, nothing
LineRead(i) == IF i <= Len(stdin.data) THEN stdin.data[i] ELSE <<>>

\* the response a line calls for, given the secret: its text
ResponseText(line, secret) ==
    LET parsed == parse_u32(trim(line)) IN
    IF is_err(parsed) THEN MsgParseError.text
    ELSE IF unwrap(parsed) < 1 \/ unwrap(parsed) > 100 THEN MsgInvalidRange.text
    ELSE IF unwrap(parsed) < secret.value THEN MsgTooSmall.text
    ELSE IF unwrap(parsed) > secret.value THEN MsgTooBig.text
    ELSE MsgWin(0).text

\* lines whose response has been printed
nanswered == nread - (IF pc \in {"Matching", "Evaluating"} THEN 1 ELSE 0)

\* C15: every line consumed gets exactly one response, the one its text and
\* the secret call for: the out-of-range message, the invalid-number
\* message, Too small, Too big or the victory message.
C15_OneResponsePerLine ==
    pc # "Start" =>
        /\ Len(Responses(stdout)) = nanswered
        /\ \A i \in 1..Len(Responses(stdout)) :
               Responses(stdout)[i].text = ResponseText(LineRead(i), secret_number)

\* all five lines of the scenario were answered, each in its own way
C15_Witness ==
    /\ stdin = Pipe(Scenario)
    /\ nread = 5
    /\ Len(Responses(stdout)) = 5
    /\ {Responses(stdout)[i].text : i \in 1..5}
         = {MsgTooSmall.text, MsgTooBig.text, MsgInvalidRange.text,
            MsgParseError.text, MsgWin(0).text}

\* the victory message has been printed
HasWon == \E i \in 1..Len(stdout) : IsWin(stdout[i])

\* C16: Done is terminal. The step that reports Correct leads to Done, and
\* once Correct is reported no step reads a line, prints anything or changes
\* the counter.
C16_DoneIsTerminal ==
    [][/\ (~HasWon /\ HasWon') => pc' = "Done"
       /\ HasWon =>
            /\ pc' = pc
            /\ stdout' = stdout
            /\ nread' = nread
            /\ guess_count' = guess_count]_vars

\* the session was won at the first line, with more lines still to be typed
C16_Witness ==
    /\ pc = "Done"
    /\ HasWon
    /\ nread = 1
    /\ nread < ReadCap(stdin)

\* prompts printed so far
nprompts == Len(SelectSeq(stdout, LAMBDA m : m = MsgPrompt))

\* C17: prompts, reads and responses alternate. After the title the output
\* is prompt, response, prompt, response, ...; each line is read right after
\* a prompt of its own, and its response is printed before the next prompt.
C17_PromptReadRespond ==
    pc # "Start" =>
        /\ stdout[1] = MsgTitle
        /\ \A i \in 2..Len(stdout) :
               IF i % 2 = 0 THEN stdout[i] = MsgPrompt
               ELSE stdout[i] \notin {MsgPrompt, MsgTitle}
        /\ nprompts = nread + (IF pc \in {"Reading", "Aborted"} THEN 1 ELSE 0)
        /\ pc \in {"Reading", "Matching", "Evaluating"} => stdout[Len(stdout)] = MsgPrompt
        /\ pc \in {"AwaitingInput", "Done"} =>
               (nread = 0 \/ stdout[Len(stdout)] # MsgPrompt)

\* the third prompt is out, after two lines read and answered
C17_Witness ==
    /\ pc = "Reading"
    /\ nread = 2
    /\ nprompts = 3
    /\ Len(stdout) = 6

\* a < b as u32
u32_lt(a, b) == a[1] < b[1] \/ (a[1] = b[1] /\ a[2] < b[2])

\* C18: the attempt counter never decreases: increment yields exactly the
\* previous value plus 1 for every counter value, with no wraparound or reset
\* at the bound of its 32-bit unsigned representation.
C18_IncrementNeverWraps ==
    call.fn = "increment" =>
        /\ ret # Panic
        /\ ret.count = u32_succ(call.self)
        /\ ret.count[1] < HALF
        /\ u32_lt(call.self, ret.count)

SecretLineInInput ==
    \E i \in 1..Len(stdin.data) : bin_parse_input(stdin.data[i]) = Ok(secret_number)

\* C19: if the input contains a line that parses to the secret, and the user
\* keeps answering, the session eventually reaches Done, however many
\* rejected, too-small or too-big lines come before that line.
C19_SecretLineReachesDone ==
    SecretLineInInput ~> (pc = "Done")

\* C21: GuessError::InvalidInput is never produced in a session. Every
\* rejected line, an empty or whitespace-only one included, is rejected with
\* ParseError or InvalidRange, and the line "Error: Invalid input, please try
\* again." is never printed.
C21_InvalidInputNeverProduced ==
    /\ guess # Err(InvalidInput)
    /\ is_err(guess) => unwrap(guess).kind \in {"ParseError", "InvalidRange"}
    /\ \A i \in 1..Len(stdout) : stdout[i] # MsgInvalidInput

\* an empty line (Enter alone, or the end of input) was read after an
\* out-of-range one, and was rejected as ParseError(Empty)
C21_Witness ==
    /\ pc = "Matching"
    /\ nread = 2
    /\ guess = Err(ParseError(Empty))
    /\ stdout[Len(stdout) - 1] = MsgInvalidRange

\* the pipe has been read to its end and at least one read was made past it
PastEndOfInput == ~stdin.tty /\ nread > Len(stdin.data)

\* C22: the end of input is not a read failure. Once the pipe is exhausted
\* without a correct guess, every further read returns the empty line, which
\* is rejected as a ParseError: the invalid-number message is printed, the
\* counter stays as it was and the session awaits input again, in the state
\* it was in before that read, so that it prompts again and again; it never
\* reaches Done, and aborts only if a read itself fails.
C22_EndOfInputReprompts ==
    [][/\ (pc = "Reading" /\ ~stdin.tty /\ nread >= Len(stdin.data) /\ nread' # nread) =>
            /\ pc' = "Matching"
            /\ guess' = Err(ParseError(Empty))
            /\ naccepted' = naccepted
       /\ (pc = "Matching" /\ PastEndOfInput) =>
            /\ pc' = "AwaitingInput"
            /\ stdout' = Append(stdout, MsgParseError)
            /\ guess_count' = guess_count
            /\ secret_number' = secret_number
            /\ guess' = NoValue
       /\ PastEndOfInput =>
            /\ pc \in {"Matching", "AwaitingInput", "Reading", "Aborted"}
            /\ pc' \in {"Matching", "AwaitingInput", "Reading", "Aborted"}
            /\ bin_GuessCount_value(guess_count') = naccepted
            /\ pc' = "Aborted" => (pc = "Reading" /\ nread' = nread)
            /\ (pc = "AwaitingInput" /\ nread < ReadCap(stdin)) =>
                   (pc' = "Reading" /\ stdout' = Append(stdout, MsgPrompt))]_vars

\* the lines "30" and "70" were piped to a session whose secret is 50: two
\* reads past the end were each answered by the invalid-number message, the
\* counter is still 2 and the session awaits input again
C22_Witness ==
    /\ stdin = Pipe(<<<<"3", "0", "\n">>, <<"7", "0", "\n">>>>)
    /\ secret_number = Guess(50)
    /\ nread = 4
    /\ pc = "AwaitingInput"
    /\ bin_GuessCount_value(guess_count) = 2
    /\ SubSeq(Responses(stdout), 3, 4) = <<MsgParseError, MsgParseError>>

\* What a session with this secret has printed in response to these lines,
\* the count it has reached and whether it has ended, as a function of the
\* secret and the lines alone. st is the result for the lines before these.
RECURSIVE Replay(_, _, _)
Replay(secret, lines, st) ==
    IF lines = <<>> \/ st.done THEN st
    ELSE LET parsed == bin_parse_input(Head(lines)) IN
         IF is_err(parsed)
         THEN Replay(secret, Tail(lines),
                     [st EXCEPT !.out = Append(@, handle_error(unwrap(parsed)))])
         ELSE LET n == st.count + 1
                  v == unwrap(parsed).value IN
              Replay(secret, Tail(lines),
                     [out |-> Append(st.out, IF v < secret.value THEN MsgTooSmall
                                             ELSE IF v > secret.value THEN MsgTooBig
                                             ELSE MsgWin(n)),
                      count |-> n,
                      done |-> v = secret.value])

\* the lines answered so far
LinesAnswered == [i \in 1..nanswered |-> LineRead(i)]

\* the message a rejected line is answered with: no secret in it
RejectionOf(line) ==
    IF is_ok(parse_u32(trim(line))) THEN MsgInvalidRange ELSE MsgParseError

\* C23: the session is deterministic given the secret and the input. What it
\* has printed in response to the lines, the counter and whether it has ended
\* are a function of the secret and the lines answered, so two sessions with
\* the same secret and the same lines agree on them; and the response to a
\* rejected line is a function of that line alone, not of the secret.
C23_Deterministic ==
    pc # "Start" =>
        LET r == Replay(secret_number, LinesAnswered,
                        [out |-> <<>>, count |-> 0, done |-> FALSE]) IN
        /\ Responses(stdout) = r.out
        /\ pc = "Done" <=> r.done
        /\ pc \in {"AwaitingInput", "Reading", "Aborted", "Done"} =>
               bin_GuessCount_value(guess_count) = r.count
        /\ \A i \in 1..nanswered :
               is_err(bin_parse_input(LineRead(i))) =>
                   Responses(stdout)[i] = RejectionOf(LineRead(i))

\* the lines "150", "70", "50" were piped to a session whose secret is 70:
\* it answered the first with the out-of-range message, won with the second
\* at a count of 1 and left the third unread
C23_Witness ==
    /\ stdin = Pipe(<<<<"1", "5", "0", "\n">>, <<"7", "0", "\n">>, <<"5", "0", "\n">>>>)
    /\ secret_number = Guess(70)
    /\ pc = "Done"
    /\ nread = 2
    /\ Responses(stdout) = <<MsgInvalidRange, MsgWin(1)>>
    /\ bin_GuessCount_value(guess_count) = 1

\* C24: the definitions main.rs duplicates behave as the ones of lib.rs. For
\* every call made of a library function, the copy in main.rs applied to the
\* same arguments returns the same result: Guess::new and value, parse_input,
\* GuessCount::new and value, increment (the same outcome in the same build)
\* and handle_guess.
C24_BinaryMatchesLibrary ==
    /\ call.fn = "Guess::new" =>
           /\ bin_Guess_new(call.arg) = ret
           /\ is_ok(ret) => bin_Guess_value(unwrap(ret)) = Guess_value(unwrap(ret))
    /\ call.fn = "parse_input" => bin_parse_input(call.arg) = ret
    /\ call.fn = "GuessCount::new" =>
           /\ bin_GuessCount_new = ret
           /\ bin_GuessCount_value(ret) = GuessCount_value(ret)
    /\ call.fn = "increment" =>
           /\ ret \in bin_GuessCount_increment([count |-> call.self])
           /\ bin_GuessCount_increment([count |-> call.self])
                  = GuessCount_increment([count |-> call.self])
    /\ call.fn = "handle_guess" =>
           bin_handle_guess(unwrap(bin_Guess_new(call.args[1])),
                            unwrap(bin_Guess_new(call.args[2]))) = ret

\* Guess::new(0) was called in the library and returned InvalidRange, as the
\* copy in main.rs does
C24_Witness ==
    /\ call.fn = "Guess::new"
    /\ call.arg = 0
    /\ ret = Err(InvalidRange)
    /\ bin_Guess_new(0) = Err(InvalidRange)

====
